---- MODULE Spec2Model ----
(***************************************************************************)
(* Indicator / consensus / risk-sizing engine of the trading repository.   *)
(*                                                                         *)
(*   app/utils/strategy.py              indicator functions, check_risk    *)
(*   app/agents/analizer_agent.py       AnalyzerAgent.analyze (3-of-6)     *)
(*   app/tools/analizer.py              AnalyzerAgent.analyze (5/4-of-8)   *)
(*   app/coinbase_/websocket_analyser.py WebSocketAnalyzer                 *)
(*   app/coinbase_/market_analyser.py   MarketAnalyzer                     *)
(*   app/agents/data_fetcher_agent.py   DataFetcherAgent.stream_market_data*)
(*                                                                         *)
(* Several specifications share the variables; each one drives one group   *)
(* of operations and leaves the others' variables at their idle value.     *)
(***************************************************************************)
EXTENDS Integers, Sequences, FiniteSets, TLC

VARIABLES
    vsite,      \* consensus call site whose vote is evaluated
    vin,        \* inputs of that call (indicator results, balance, close, LLM outcome)
    vout,       \* outcome of that call, or Pending
    rsite,      \* position-sizing function that is called
    rargs,      \* its arguments (balance, price, risk)
    rout,       \* its outcome, or Pending
    ifn,        \* indicator function that is called
    iargs,      \* its arguments (historical_data, period, spans)
    iout,       \* its outcome, or Pending
    pc,         \* stream_market_data: "idle", "connecting", "receiving", "stopped"
                \* (statement by statement also "appended", "evaluating")
    windows,    \* self.historical_data: product id -> window (deque)
    printed,    \* signal: result of the last analyzer_agent.analyze call
    raised,     \* exception that left stream_market_data, or "-"
    level,      \* price the tickers of the first product quote on this connection
    ticks,      \* per product, tickers received on this connection
    arrived,    \* per product, every observation appended on this connection
    current,    \* product id of the ticker that is being processed, or "-"
    snapshot    \* the list that the analyze call in progress was given

voteVars == <<vsite, vin, vout>>
riskVars == <<rsite, rargs, rout>>
indVars  == <<ifn, iargs, iout>>
streamVars == <<pc, windows, printed, raised, level, ticks, arrived, current, snapshot>>
vars == <<voteVars, riskVars, indVars, streamVars>>

Pending == [kind |-> "pending"]
Idle    == [kind |-> "idle"]

(***************************************************************************)
(* Python values that the code compares with == or passes to str().        *)
(***************************************************************************)
PyNone      == [t |-> "None", v |-> 0]
PyInt(n)    == [t |-> "int", v |-> n]
IsNone(x)   == x.t = "None"

\* Indicator values: None, NaN, or a number (numbers are written n/d).
NoneVal == [k |-> "none", n |-> 0, d |-> 1]
NaNVal  == [k |-> "nan", n |-> 0, d |-> 1]

\* A bare string, a tuple (a, b...) whose first item is the string a and whose
\* other items are the values b, a pandas Series.
PyStr(s)      == [t |-> "str", a |-> s, b |-> <<>>]
PyTuple(s, v) == [t |-> "tuple", a |-> s, b |-> v]
PySeries(v)   == [t |-> "Series", a |-> "-", b |-> v]

\* value == "BUY" : only a str equal to the literal compares equal.
PyEqStr(x, lit) == x.t = "str" /\ x.a = lit
\* value[0] == "BUY" on a tuple: its first item.
PyItem0EqStr(x, lit) == x.t = "tuple" /\ x.a = lit
\* str(value) : a str is itself; a tuple or a Series gives its repr.
\* Variant of PyStrOf in which a tuple reads as its first item.
PyStrOfFirstItem(x) ==
    IF x.t = "str" \/ x.t = "tuple" THEN x.a ELSE "(Series repr)"

PyStrOf(x) ==
    IF x.t = "str" THEN x.a
    ELSE IF x.t = "tuple" THEN "(tuple repr)" ELSE "(Series repr)"

\* The outcome of a call: a return value or a raised exception.
Returned(status, val) == [kind |-> "return", exc |-> "-", status |-> status, val |-> val]
Raised(exc)           == [kind |-> "raise", exc |-> exc, status |-> "-", val |-> PyNone]
PyFloat(f)            == [t |-> "float", v |-> f]

(***************************************************************************)
(* Natural numbers beyond the machine word: a sequence of limbs in base     *)
(* 2^13, most significant first, without leading zero limbs (<<>> is 0).   *)
(***************************************************************************)
LimbBits == 13
Base     == 2 ^ LimbBits

Abs(n) == IF n < 0 THEN -n ELSE n
Sgn(n) == IF n < 0 THEN -1 ELSE IF n = 0 THEN 0 ELSE 1
Min(a, b) == IF a < b THEN a ELSE b

RECURSIVE BigOfNat(_)
BigOfNat(n) == IF n = 0 THEN <<>> ELSE Append(BigOfNat(n \div Base), n % Base)

\* Number of binary digits of a machine int / of a big natural.
RECURSIVE IntBitLen(_)
IntBitLen(n) == IF n = 0 THEN 0 ELSE 1 + IntBitLen(n \div 2)
BitLen(X) == IF X = <<>> THEN 0 ELSE LimbBits * (Len(X) - 1) + IntBitLen(X[1])

\* X * c for 0 < c < 2^17 (carry runs from the least significant limb).
RECURSIVE MulCarry(_, _, _, _, _)
MulCarry(X, c, i, carry, acc) ==
    IF i = 0
    THEN (IF carry = 0 THEN acc
          ELSE MulCarry(X, c, 0, carry \div Base, <<carry % Base>> \o acc))
    ELSE LET t == X[i] * c + carry
         IN MulCarry(X, c, i - 1, t \div Base, <<t % Base>> \o acc)
MulSmall(X, c) == MulCarry(X, c, Len(X), 0, <<>>)

\* Quotient and remainder of X by 0 < d < 2^17 (schoolbook, from the top limb).
RECURSIVE DivStep(_, _, _, _, _)
DivStep(X, d, i, r, q) ==
    IF i > Len(X) THEN [q |-> q, r |-> r]
    ELSE LET t == r * Base + X[i]
         IN DivStep(X, d, i + 1, t % d,
                    IF q = <<>> /\ t \div d = 0 THEN q ELSE Append(q, t \div d))
DivSmall(X, d) == DivStep(X, d, 1, 0, <<>>)

\* X + 1
RECURSIVE AddOneAt(_, _)
AddOneAt(X, i) ==
    IF i = 0 THEN <<1>> \o X
    ELSE IF X[i] = Base - 1 THEN AddOneAt([X EXCEPT ![i] = 0], i - 1)
    ELSE [X EXCEPT ![i] = X[i] + 1]
AddOne(X) == AddOneAt(X, Len(X))

\* X < Y
BigLess(X, Y) ==
    \/ Len(X) < Len(Y)
    \/ /\ Len(X) = Len(Y)
       /\ \E i \in 1..Len(X) : X[i] < Y[i] /\ \A j \in 1..(i-1) : X[j] = Y[j]

(***************************************************************************)
(* IEEE-754 binary64 arithmetic, as used by Python's float / and *.        *)
(* A float is [s, m, e]: sign s in {-1,0,1}, mantissa m a big natural of   *)
(* exactly 53 bits, exponent e of its last bit: value = s * m * 2^e.       *)
(* (Subnormals, overflow to infinity and NaN do not arise on the operand   *)
(* ranges used here.)                                                      *)
(***************************************************************************)
MantBits == 53

FZero == [s |-> 0, m |-> <<>>, e |-> 0]

\* The float nearest to X * 2^e (+ a positive fraction of 2^e iff sticky),
\* round-half-to-even.  sticky requires BitLen(X) > MantBits.
RECURSIVE RoundBig(_, _, _)
RoundBig(X, sticky, e) ==
    LET L == BitLen(X)
    IN IF L < MantBits
       THEN LET k == Min(LimbBits, MantBits - L)
            IN RoundBig(MulSmall(X, 2 ^ k), sticky, e - k)
       ELSE IF L = MantBits THEN [m |-> X, e |-> e]
       ELSE IF L > MantBits + 1
       THEN LET k  == Min(LimbBits, L - MantBits - 1)
                dr == DivSmall(X, 2 ^ k)
            IN RoundBig(dr.q, sticky \/ dr.r # 0, e + k)
       ELSE LET dr    == DivSmall(X, 2)
                guard == dr.r = 1
                odd   == dr.q[Len(dr.q)] % 2 = 1
                up    == AddOne(dr.q)
            IN IF guard /\ (sticky \/ odd)
               THEN (IF BitLen(up) > MantBits
                     THEN [m |-> DivSmall(up, 2).q, e |-> e + 2]
                     ELSE [m |-> up, e |-> e + 1])
               ELSE [m |-> dr.q, e |-> e + 1]

\* Exact conversion of an int of magnitude below 2^31.
FloatOfInt(n) ==
    IF n = 0 THEN FZero
    ELSE LET r == RoundBig(BigOfNat(Abs(n)), FALSE, 0)
         IN [s |-> Sgn(n), m |-> r.m, e |-> r.e]

\* f / d for a nonzero int d, |d| < 2^14: the correctly rounded quotient.
FDivInt(f, d) ==
    IF f.s = 0 THEN FZero
    ELSE LET k  == IntBitLen(Abs(d)) + 2
             dr == DivSmall(MulSmall(f.m, 2 ^ k), Abs(d))
             r  == RoundBig(dr.q, dr.r # 0, f.e - k)
         IN [s |-> f.s * Sgn(d), m |-> r.m, e |-> r.e]

\* f * d for an int d, |d| < 2^17: the correctly rounded product.
FMulInt(f, d) ==
    IF f.s = 0 \/ d = 0 THEN FZero
    ELSE LET r == RoundBig(MulSmall(f.m, Abs(d)), FALSE, f.e)
         IN [s |-> f.s * Sgn(d), m |-> r.m, e |-> r.e]

\* Magnitude order of two nonzero floats (both mantissas have MantBits bits).
MagLess(f, g) == f.e < g.e \/ (f.e = g.e /\ BigLess(f.m, g.m))

\* f < g
FLess(f, g) ==
    IF f.s # g.s THEN f.s < g.s
    ELSE IF f.s = 0 THEN FALSE
    ELSE IF f.s = 1 THEN MagLess(f, g)
    ELSE MagLess(g, f)

\* a > b
FGreater(a, b) == FLess(b, a)

(***************************************************************************)
(* Exact arithmetic on indicator values.  A value is a record with tag k:  *)
(*   "num"  the rational n/d (d > 0, lowest terms)                         *)
(*   "nan", "inf", "ninf"  float NaN and the infinities                    *)
(*   "none"  Python None                                                   *)
(* The rolling means, sums and EMAs of pandas are computed here without    *)
(* rounding.                                                               *)
(***************************************************************************)
RECURSIVE GCD(_, _)
GCD(a, b) == IF b = 0 THEN a ELSE GCD(b, a % b)

Rat(n, d) ==
    LET g == GCD(Abs(n), Abs(d))
    IN [k |-> "num", n |-> Sgn(d) * (n \div g), d |-> Abs(d) \div g]
Num(n)   == [k |-> "num", n |-> n, d |-> 1]
InfVal   == [k |-> "inf", n |-> 0, d |-> 1]
NInfVal  == [k |-> "ninf", n |-> 0, d |-> 1]

IsNum(x)    == x.k = "num"
IsNaN(x)    == x.k = "nan"
Defined(x)  == x.k \notin {"none", "nan"}
LCM(a, b)   == (a \div GCD(a, b)) * b

\* x + y, x - y, x * y, x / y with the float rules for NaN, infinities and
\* division by zero (numpy: x/0 is an infinity, 0/0 is NaN).
VNeg(x) ==
    IF x.k = "num" THEN [x EXCEPT !.n = -x.n]
    ELSE IF x.k = "inf" THEN NInfVal
    ELSE IF x.k = "ninf" THEN InfVal ELSE NaNVal
VAdd(x, y) ==
    IF x.k = "nan" \/ y.k = "nan" THEN NaNVal
    ELSE IF x.k = "num" /\ y.k = "num"
    THEN LET l == LCM(x.d, y.d) IN Rat(x.n * (l \div x.d) + y.n * (l \div y.d), l)
    ELSE IF x.k = "num" THEN y
    ELSE IF y.k = "num" THEN x
    ELSE IF x.k = y.k THEN x ELSE NaNVal
VSub(x, y) == VAdd(x, VNeg(y))
VSign(x) ==
    IF x.k = "num" THEN Sgn(x.n) ELSE IF x.k = "inf" THEN 1 ELSE -1
VMul(x, y) ==
    IF x.k = "nan" \/ y.k = "nan" THEN NaNVal
    ELSE IF x.k = "num" /\ y.k = "num"
    THEN LET g1 == GCD(Abs(x.n), y.d)
             g2 == GCD(Abs(y.n), x.d)
         IN Rat((x.n \div g1) * (y.n \div g2), (x.d \div g2) * (y.d \div g1))
    ELSE IF VSign(x) * VSign(y) = 0 THEN NaNVal
    ELSE IF VSign(x) * VSign(y) > 0 THEN InfVal ELSE NInfVal
VDiv(x, y) ==
    IF x.k = "nan" \/ y.k = "nan" THEN NaNVal
    ELSE IF y.k = "num"
    THEN (IF y.n = 0
          THEN (IF VSign(x) = 0 THEN NaNVal
                ELSE IF VSign(x) > 0 THEN InfVal ELSE NInfVal)
          ELSE VMul(x, Rat(y.d, y.n)))
    ELSE IF x.k = "num" THEN Num(0) ELSE NaNVal

\* x < y, x > y, x == y: False as soon as one side is NaN.
VLess(x, y) ==
    IF x.k = "nan" \/ y.k = "nan" THEN FALSE
    ELSE IF x.k = "num" /\ y.k = "num"
    THEN LET l == LCM(x.d, y.d) IN x.n * (l \div x.d) < y.n * (l \div y.d)
    ELSE IF x.k = y.k THEN FALSE
    ELSE x.k = "ninf" \/ y.k = "inf"
VGreater(x, y) == VLess(y, x)
VEq(x, y) == x.k # "nan" /\ y.k # "nan" /\ x.k = y.k /\ x.n = y.n /\ x.d = y.d

\* Sum of a sequence of values.
RECURSIVE VSum(_)
VSum(xs) == IF xs = <<>> THEN Num(0) ELSE VAdd(Head(xs), VSum(Tail(xs)))

(***************************************************************************)
(* pandas Series operations on a sequence of values (index i is position   *)
(* i-1 of the Series).                                                     *)
(***************************************************************************)
\* A Series is a function on 1..n whose rows are computed when they are
\* read; Series(f) computes them all, once.
Series(f) == SubSeq(f, 1, Len(f))
Size(s)   == Cardinality(DOMAIN s)
\* s.iloc[-1] of a non-empty Series
Last(s)   == s[Size(s)]

Column(historical_data, col) ==
    [i \in 1..Len(historical_data) |->
        IF col = "close" THEN Num(historical_data[i].close)
        ELSE IF col = "high" THEN Num(historical_data[i].high)
        ELSE Num(historical_data[i].low)]

\* s.diff(): NaN first, then differences.
Diff(s) == [i \in 1..Size(s) |-> IF i = 1 THEN NaNVal ELSE VSub(s[i], s[i-1])]
\* s.shift(1)
Shift1(s) == [i \in 1..Size(s) |-> IF i = 1 THEN NaNVal ELSE s[i-1]]
\* The window of s.rolling(window=w) that ends at i (empty when incomplete
\* or when it holds a NaN: min_periods is the window length).
RollWindow(s, w, i) ==
    IF i < w \/ w < 1 THEN <<>>
    ELSE LET win == Series([j \in 1..w |-> s[i - w + j]])
         IN IF \E j \in 1..w : IsNaN(win[j]) THEN <<>> ELSE win
\* s.rolling(window=w).sum() and .mean()
RollingSum(s, w) ==
    [i \in 1..Size(s) |-> LET win == RollWindow(s, w, i)
                          IN IF win = <<>> THEN NaNVal ELSE VSum(win)]
RollingMean(s, w) ==
    [i \in 1..Size(s) |-> LET win == RollWindow(s, w, i)
                          IN IF win = <<>> THEN NaNVal ELSE VDiv(VSum(win), Num(w))]
\* s.rolling(window=w).min() / .max()
SeqMin(xs) == CHOOSE x \in {xs[i] : i \in 1..Len(xs)} :
                  \A j \in 1..Len(xs) : ~VLess(xs[j], x)
SeqMax(xs) == CHOOSE x \in {xs[i] : i \in 1..Len(xs)} :
                  \A j \in 1..Len(xs) : ~VLess(x, xs[j])
RollingMin(s, w) ==
    [i \in 1..Size(s) |-> LET win == RollWindow(s, w, i)
                          IN IF win = <<>> THEN NaNVal ELSE SeqMin(win)]
RollingMax(s, w) ==
    [i \in 1..Size(s) |-> LET win == RollWindow(s, w, i)
                          IN IF win = <<>> THEN NaNVal ELSE SeqMax(win)]
\* Sample variance (ddof = 1) of the window that ends at i: the square of
\* s.rolling(window=w).std().  NaN for w = 1 or a window with an infinity.
WindowVar(xs) ==
    LET w    == Len(xs)
        mean == VDiv(VSum(xs), Num(w))
        sq   == Series([i \in 1..w |-> VMul(VSub(xs[i], mean), VSub(xs[i], mean))])
    IN IF w < 2 \/ \E i \in 1..w : ~IsNum(xs[i]) THEN NaNVal
       ELSE VDiv(VSum(sq), Num(w - 1))
RollingVar(s, w) ==
    [i \in 1..Size(s) |-> LET win == RollWindow(s, w, i)
                          IN IF win = <<>> THEN NaNVal ELSE WindowVar(win)]
\* s.ewm(span=span, adjust=False).mean(): y0 = x0,
\* y_t = (1 - a) * y_(t-1) + a * x_t with a = 2 / (span + 1).
\* EwmFrom(y, xs, span) is the run of the recurrence over xs that starts
\* from the previous mean y (the first half of xs, then the second half
\* from where the first one ended).
RECURSIVE EwmFrom(_, _, _)
EwmFrom(y, xs, span) ==
    IF Len(xs) = 0 THEN <<>>
    ELSE IF Len(xs) = 1
    THEN LET alpha == Rat(2, span + 1)
         IN <<VAdd(VMul(VSub(Num(1), alpha), y), VMul(alpha, xs[1]))>>
    ELSE LET h     == Len(xs) \div 2
             left  == EwmFrom(y, SubSeq(xs, 1, h), span)
             right == EwmFrom(left[h], SubSeq(xs, h + 1, Len(xs)), span)
         IN left \o right
\* An exponential average seeded by zero instead of the first value.
EwmSeededByZero(s, span) == EwmFrom(Num(0), s, span)
Ewm(s, span) ==
    IF Len(s) = 0 THEN <<>> ELSE <<s[1]>> \o EwmFrom(s[1], SubSeq(s, 2, Len(s)), span)

(***************************************************************************)
(* Irrational results.  A rolling standard deviation is kept as its square *)
(* (the variance, a rational): comparisons of square roots are decided     *)
(* exactly on the squares.                                                 *)
(*   [k |-> "sqrt", n, d]           the float sqrt(n/d)                    *)
(*   [k |-> "surd", n, d, c, r]     the float n/d + c * sqrt(r)            *)
(* np.log is taken in units of ln 2 (closes are powers of two, so that a   *)
(* log return is an integer); the common factor ln 2 changes no comparison.*)
(***************************************************************************)
Sqrt(x)       == IF IsNum(x) THEN [k |-> "sqrt", n |-> x.n, d |-> x.d] ELSE NaNVal
Surd(m, c, r) == IF IsNum(m) /\ IsNum(r)
                 THEN [k |-> "surd", n |-> m.n, d |-> m.d, c |-> c, r |-> r]
                 ELSE NaNVal
\* the square under a "sqrt" value
SquareOf(x) == IF x.k = "sqrt" THEN Rat(x.n, x.d) ELSE NaNVal

IsPow2(n) == n > 0 /\ n = 2 ^ (IntBitLen(n) - 1)
NpLog(x) ==
    IF x.k = "inf" THEN InfVal
    ELSE IF x.k # "num" \/ x.n < 0 THEN NaNVal
    ELSE IF x.n = 0 THEN NInfVal
    ELSE IF IsPow2(x.n) /\ IsPow2(x.d) THEN Num(IntBitLen(x.n) - IntBitLen(x.d))
    ELSE CHOOSE e \in {} : TRUE      \* not a power of two: outside the model

\* x < m + c * sqrt(r) and x > m + c * sqrt(r), for rationals x, m, r and
\* an integer c (False when a side is NaN).
LessThanSurd(x, m, c, r) ==
    IF ~IsNum(x) \/ ~IsNum(m) \/ ~IsNum(r) THEN FALSE
    ELSE LET t  == VSub(x, m)                      \* t < c * sqrt(r) ?
             t2 == VMul(t, t)
             c2 == VMul(Num(c * c), r)
         IN IF c >= 0 THEN VSign(t) < 0 \/ VLess(t2, c2)
            ELSE VSign(t) < 0 /\ VLess(c2, t2)
GreaterThanSurd(x, m, c, r) ==
    IF ~IsNum(x) \/ ~IsNum(m) \/ ~IsNum(r) THEN FALSE
    ELSE LET t  == VSub(x, m)                      \* t > c * sqrt(r) ?
             t2 == VMul(t, t)
             c2 == VMul(Num(c * c), r)
         IN IF c >= 0 THEN VSign(t) > 0 /\ VLess(c2, t2)
            ELSE VSign(t) > 0 \/ VLess(t2, c2)

\* Series.median() of a Series of square roots given by their squares
\* (NaN entries are skipped): the middle one, or the mean of the two middle
\* ones, returned as the pair of squares <<a, b>> with median
\* (sqrt(a) + sqrt(b)) / 2; <<>> when every entry is NaN.
Rank(xs, k) ==
    CHOOSE x \in {xs[i] : i \in 1..Len(xs)} :
        /\ Cardinality({j \in 1..Len(xs) : VLess(xs[j], x)}) < k
        /\ Cardinality({j \in 1..Len(xs) : ~VLess(x, xs[j])}) >= k
MedianOfSqrt(sq) ==
    LET xs == SelectSeq(sq, IsNum)
        n  == Len(xs)
    IN IF n = 0 THEN <<>>
       ELSE IF n % 2 = 1 THEN <<Rank(xs, (n + 1) \div 2), Rank(xs, (n + 1) \div 2)>>
       ELSE <<Rank(xs, n \div 2), Rank(xs, n \div 2 + 1)>>
\* sqrt(x) < (sqrt(a) + sqrt(b)) / 2
SqrtLessThanMedian(x, med) ==
    IF ~IsNum(x) \/ med = <<>> THEN FALSE
    ELSE LET a == med[1]
             b == med[2]
             t == VSub(VSub(VMul(Num(4), x), a), b)   \* t < 2 sqrt(ab) ?
         IN VSign(t) < 0 \/ VLess(VMul(t, t), VMul(Num(4), VMul(a, b)))

(***************************************************************************)
(* src/app/utils/strategy.py: the indicator functions.  Each returns the   *)
(* tuple (signal, value).                                                  *)
(***************************************************************************)
\* delta.where(delta > 0, 0) and delta.where(delta < 0, 0)
WherePositive(s) == [i \in 1..Size(s) |-> IF VGreater(s[i], Num(0)) THEN s[i] ELSE Num(0)]
WhereNegative(s) == [i \in 1..Size(s) |-> IF VLess(s[i], Num(0)) THEN s[i] ELSE Num(0)]

\* rsi = 100 - (100 / (1 + gain / loss)) at the last row
\* Variant of RsiLast that keeps the sign of the mean of the losses.
RsiLastSignedLoss(close, period) ==
    LET delta == Diff(close)
        gain  == Last(RollingMean(WherePositive(delta), period))
        loss  == Last(RollingMean(WhereNegative(delta), period))
        rs    == VDiv(gain, loss)
    IN VSub(Num(100), VDiv(Num(100), VAdd(Num(1), rs)))

RsiLast(close, period) ==
    LET delta == Diff(close)
        gain  == Last(RollingMean(WherePositive(delta), period))
        loss  == VNeg(Last(RollingMean(WhereNegative(delta), period)))
        rs    == VDiv(gain, loss)
    IN VSub(Num(100), VDiv(Num(100), VAdd(Num(1), rs)))

calculate_rsi(historical_data, period) ==
    IF Len(historical_data) < period THEN PyTuple("NEUTRAL", <<NoneVal>>)
    ELSE LET rsi == RsiLast(Column(historical_data, "close"), period)
         IN PyTuple(IF VGreater(rsi, Num(70)) THEN "SELL"
                    ELSE IF VLess(rsi, Num(30)) THEN "BUY" ELSE "NEUTRAL",
                    <<rsi>>)

\* macd and signal_line at the last row
MacdLast(close, short_period, long_period, signal_period) ==
    LET short_ema == Ewm(close, short_period)
        long_ema  == Ewm(close, long_period)
        macd      == [i \in 1..Size(close) |-> VSub(short_ema[i], long_ema[i])]
        signal_line == Ewm(macd, signal_period)
    IN [macd |-> Last(macd), signal_line |-> Last(signal_line)]

calculate_macd(historical_data, short_period, long_period, signal_period) ==
    IF Len(historical_data) < long_period THEN PyTuple("NEUTRAL", <<NoneVal>>)
    ELSE LET m == MacdLast(Column(historical_data, "close"),
                           short_period, long_period, signal_period)
         IN PyTuple(IF VGreater(m.macd, m.signal_line) THEN "BUY"
                    ELSE IF VLess(m.macd, m.signal_line) THEN "SELL" ELSE "NEUTRAL",
                    <<m.macd>>)

calculate_sma(historical_data, period) ==
    IF Len(historical_data) < period THEN PyTuple("NEUTRAL", <<NoneVal>>)
    ELSE LET close        == Column(historical_data, "close")
             latest_price == Last(close)
             latest_sma   == Last(RollingMean(close, period))
         IN PyTuple(IF VGreater(latest_price, latest_sma) THEN "BUY" ELSE "SELL",
                    <<latest_sma>>)

\* Variant of calculate_bollinger_bands that returns the bands in the other
\* order.
calculate_bollinger_bands_swapped(historical_data, period, num_std_dev) ==
    IF Len(historical_data) < period THEN PyTuple("NEUTRAL", <<NoneVal, NoneVal>>)
    ELSE LET close == Column(historical_data, "close")
             sma   == Last(RollingMean(close, period))
             var   == Last(RollingVar(close, period))
         IN PyTuple(IF LessThanSurd(Last(close), sma, -num_std_dev, var) THEN "BUY"
                    ELSE IF GreaterThanSurd(Last(close), sma, num_std_dev, var) THEN "SELL"
                    ELSE "NEUTRAL",
                    <<Surd(sma, -num_std_dev, var), Surd(sma, num_std_dev, var)>>)

calculate_bollinger_bands(historical_data, period, num_std_dev) ==
    IF Len(historical_data) < period THEN PyTuple("NEUTRAL", <<NoneVal, NoneVal>>)
    ELSE LET close == Column(historical_data, "close")
             sma   == Last(RollingMean(close, period))
             var   == Last(RollingVar(close, period))
         IN PyTuple(IF LessThanSurd(Last(close), sma, -num_std_dev, var) THEN "BUY"
                    ELSE IF GreaterThanSurd(Last(close), sma, num_std_dev, var) THEN "SELL"
                    ELSE "NEUTRAL",
                    <<Surd(sma, num_std_dev, var), Surd(sma, -num_std_dev, var)>>)

\* The function is named calculate_adx and computes the Ichimoku lines.
calculate_adx(historical_data, period) ==
    IF Len(historical_data) < 52 THEN PyTuple("NEUTRAL", <<NoneVal>>)
    ELSE LET high  == Column(historical_data, "high")
             low   == Column(historical_data, "low")
             close == Column(historical_data, "close")
             n     == Len(historical_data)
             tenkan_sen(i) == VDiv(VAdd(RollingMax(high, 9)[i], RollingMin(low, 9)[i]), Num(2))
             kijun_sen(i)  == VDiv(VAdd(RollingMax(high, 26)[i], RollingMin(low, 26)[i]), Num(2))
             \* ((tenkan_sen + kijun_sen) / 2).shift(26).iloc[-1]
             senkou_span_a == VDiv(VAdd(tenkan_sen(n - 26), kijun_sen(n - 26)), Num(2))
         IN PyTuple(IF VGreater(Last(close), senkou_span_a)
                          /\ VGreater(tenkan_sen(n), kijun_sen(n)) THEN "BUY"
                    ELSE IF VLess(Last(close), senkou_span_a)
                          /\ VLess(tenkan_sen(n), kijun_sen(n)) THEN "SELL"
                    ELSE "NEUTRAL",
                    <<NoneVal>>)

\* The squares of volatility = log_returns.rolling(period).std() * sqrt(period)
VolatilitySquares(close, period) ==
    LET prev        == Shift1(close)
        log_returns == Series([i \in 1..Size(close) |-> NpLog(VDiv(close[i], prev[i]))])
        var         == RollingVar(log_returns, period)
    IN [i \in 1..Size(close) |-> VMul(var[i], Num(period))]

calculate_vtr(historical_data, period) ==
    IF Len(historical_data) < period THEN PyTuple("NEUTRAL", <<NoneVal>>)
    ELSE LET volatility == VolatilitySquares(Column(historical_data, "close"), period)
         IN PyTuple(IF SqrtLessThanMedian(Last(volatility), MedianOfSqrt(volatility))
                    THEN "BUY" ELSE "SELL",
                    <<Sqrt(Last(volatility))>>)

\* k = 100 * (close - lowest_low) / (highest_high - lowest_low)
StochasticK(historical_data, period) ==
    LET lowest_low   == RollingMin(Column(historical_data, "low"), period)
        highest_high == RollingMax(Column(historical_data, "high"), period)
        close        == Column(historical_data, "close")
    IN [i \in 1..Len(historical_data) |->
           VDiv(VMul(Num(100), VSub(close[i], lowest_low[i])),
                VSub(highest_high[i], lowest_low[i]))]

\* calculate_stochastic with a two-way signal: whatever is not a BUY is a SELL.
calculate_stochastic_two_way(historical_data, period, smooth_k, smooth_d) ==
    IF Len(historical_data) < period THEN PyTuple("NEUTRAL", <<NoneVal, NoneVal>>)
    ELSE LET k == StochasticK(historical_data, period)
             d == RollingMean(k, smooth_d)
         IN PyTuple(IF VGreater(Last(k), Last(d)) THEN "BUY" ELSE "SELL",
                    <<Last(k), Last(d)>>)

calculate_stochastic(historical_data, period, smooth_k, smooth_d) ==
    IF Len(historical_data) < period THEN PyTuple("NEUTRAL", <<NoneVal, NoneVal>>)
    ELSE LET k == StochasticK(historical_data, period)
             d == RollingMean(k, smooth_d)
         IN PyTuple(IF VGreater(Last(k), Last(d)) THEN "BUY"
                    ELSE IF VLess(Last(k), Last(d)) THEN "SELL" ELSE "NEUTRAL",
                    <<Last(k), Last(d)>>)

(***************************************************************************)
(* src/app/coinbase_/websocket_analyser.py: the indicator methods of       *)
(* WebSocketAnalyzer, on self.historical_data with self.period.  A method  *)
(* returns a str, a tuple or a Series; .iloc[-1] of an empty Series raises *)
(* IndexError.                                                             *)
(***************************************************************************)
WSCalculateRsi(historical_data, period) ==
    IF Len(historical_data) = 0 THEN Raised("IndexError")
    ELSE LET rsi == RsiLast(Column(historical_data, "close"), period)
         IN Returned("ok", IF VGreater(rsi, Num(70)) THEN PyStr("SELL")
                           ELSE IF VLess(rsi, Num(30)) THEN PyStr("BUY")
                           ELSE PyStr("NEUTRAL"))

WSCalculateMacd(historical_data, short_period, long_period, signal_period) ==
    IF Len(historical_data) = 0 THEN Raised("IndexError")
    ELSE LET m == MacdLast(Column(historical_data, "close"),
                           short_period, long_period, signal_period)
         IN Returned("ok", IF VGreater(m.macd, m.signal_line) THEN PyStr("BUY")
                           ELSE IF VLess(m.macd, m.signal_line) THEN PyStr("SELL")
                           ELSE PyStr("NEUTRAL"))

WSCalculateSma(historical_data, period) ==
    IF Len(historical_data) < period THEN PyTuple("NEUTRAL", <<NoneVal>>)
    ELSE LET close      == Column(historical_data, "close")
             sma_series == RollingMean(close, period)
         IN IF \A i \in 1..Size(close) : IsNaN(sma_series[i])
            THEN PyTuple("NEUTRAL", <<NoneVal>>)
            ELSE PyTuple(IF VGreater(Last(close), Last(sma_series)) THEN "BUY" ELSE "SELL",
                         <<Last(sma_series)>>)

WSCalculateBollingerBands(historical_data, period, num_std_dev) ==
    LET sma     == WSCalculateSma(historical_data, period)
        sma_val == sma.b[1]
        close   == Column(historical_data, "close")
        var     == Last(RollingVar(close, period))
    IN IF sma_val.k = "none" THEN Returned("ok", PyStr("Error"))
       ELSE Returned("ok",
                IF LessThanSurd(Last(close), sma_val, -num_std_dev, var) THEN PyStr("BUY")
                ELSE IF GreaterThanSurd(Last(close), sma_val, num_std_dev, var) THEN PyStr("SELL")
                ELSE PyStr("NEUTRAL"))

\* max(axis=1) of the three columns skips NaN.
MaxSkipNaN(xs) ==
    IF SelectSeq(xs, IsNum) = <<>> THEN NaNVal ELSE SeqMax(SelectSeq(xs, IsNum))
VAbs(x) == IF VSign(x) < 0 THEN VNeg(x) ELSE x

WSAdxSeries(historical_data, period) ==
    LET high  == Column(historical_data, "high")
        low   == Column(historical_data, "low")
        close == Column(historical_data, "close")
        n     == Len(historical_data)
        tr    == [i \in 1..n |-> MaxSkipNaN(<<VSub(high[i], low[i]),
                                             VAbs(VSub(high[i], Shift1(close)[i])),
                                             VAbs(VSub(low[i], Shift1(close)[i]))>>)]
        atr      == RollingMean(tr, period)
        plus_dm  == WherePositive(Diff(high))
        minus_dm == WherePositive(Diff(low))
        plus_di  == [i \in 1..n |-> VMul(Num(100), VDiv(RollingSum(plus_dm, period)[i], atr[i]))]
        minus_di == [i \in 1..n |-> VMul(Num(100), VDiv(RollingSum(minus_dm, period)[i], atr[i]))]
        dx == [i \in 1..n |-> VMul(VDiv(VAbs(VSub(plus_di[i], minus_di[i])),
                                        VAbs(VAdd(plus_di[i], minus_di[i]))), Num(100))]
    IN RollingMean(dx, period)

WSCalculateAdx(historical_data, period) ==
    IF Len(historical_data) = 0 THEN Raised("IndexError")
    ELSE IF VGreater(Last(WSAdxSeries(historical_data, period)), Num(25))
         THEN Returned("ok", PyStr("BUY"))
         ELSE Returned("ok", PyStr("SELL"))

\* close.rolling(window=period).std(), as the squares
WSCalculateVtr(historical_data, period) ==
    Returned("ok", PySeries(RollingVar(Column(historical_data, "close"), period)))

WSCalculateStochasticOscillator(historical_data, period) ==
    Returned("ok", PySeries(StochasticK(historical_data, period)))

(***************************************************************************)
(* coinbase_/market_analyser.py, MarketAnalyzer.evaluate_signals on the     *)
(* series that calculate_macd, calculate_sma and                           *)
(* calculate_stochastic_oscillator return for self.historical_data.  Each  *)
(* series is stripped of its NaN entries (dropna) first.  Of the returned  *)
(* tuple the MACD and the SMA signal are kept; the RSI, Bollinger, ADX and *)
(* VTR signals are guarded by len(...) > 0 and depend on neither.  The     *)
(* stochastic series is indexed without a guard: stx.iloc[-1] raises       *)
(* IndexError when every entry is NaN.                                     *)
(***************************************************************************)
\* rsi.dropna().iloc[-1] of calculate_rsi: the RSI of the last row where it
\* is not NaN (NoneVal when there is no such row).
MarketLastRsi(historical_data, period) ==
    LET rsi(i)  == RsiLast(Column(SubSeq(historical_data, 1, i), "close"), period)
        valid   == {i \in 1..Len(historical_data) : ~IsNaN(rsi(i))}
    IN IF valid = {} THEN NoneVal
       ELSE rsi(CHOOSE i \in valid : \A j \in valid : j <= i)
\* The last row where both Bollinger bands are numbers (0 when there is none).
MarketLastBandRow(historical_data, period) ==
    LET close == Column(historical_data, "close")
        var   == RollingVar(close, period)
        valid == {i \in 1..Len(historical_data) : ~IsNaN(var[i])}
    IN IF valid = {} THEN 0 ELSE CHOOSE i \in valid : \A j \in valid : j <= i

MarketEvaluateSignals(historical_data, period, short_period, long_period, signal_period, price) ==
    LET close == Column(historical_data, "close")
        n     == Len(historical_data)
        sma   == RollingMean(close, period)
        var   == RollingVar(close, period)
        stx   == StochasticK(historical_data, period)
        rsi   == MarketLastRsi(historical_data, period)
        band  == MarketLastBandRow(historical_data, period)
        rsi_signal ==
            IF rsi = NoneVal THEN "No Data Available"
            ELSE IF VLess(rsi, Num(30)) THEN "Oversold"
            ELSE IF VGreater(rsi, Num(70)) THEN "Overbought" ELSE "Neutral"
        macd_signal ==
            IF n > 0
            THEN LET m == MacdLast(close, short_period, long_period, signal_period)
                 IN IF VGreater(m.macd, m.signal_line) THEN "Bullish" ELSE "Bearish"
            ELSE "No Data Available"
        sma_signal ==
            IF Cardinality({i \in 1..n : ~IsNaN(sma[i])}) > 1
            THEN IF VGreater(sma[n], sma[n - 1]) THEN "Bullish" ELSE "Bearish"
            ELSE "No Data Available"
        bollinger_signal ==
            IF band = 0 THEN "No Data Available"
            ELSE IF LessThanSurd(Num(price), sma[band], -2, var[band]) THEN "Buy"
            ELSE IF GreaterThanSurd(Num(price), sma[band], 2, var[band]) THEN "Sell"
            ELSE "Neutral"
    IN IF \A i \in 1..n : IsNaN(stx[i])
       THEN Raised("IndexError")
       ELSE Returned("ok", [t |-> "signals", a |-> "-", b |-> <<>>,
                            rsi_signal |-> rsi_signal, macd_signal |-> macd_signal,
                            sma_signal |-> sma_signal,
                            bollinger_signal |-> bollinger_signal])


(***************************************************************************)
(* Position sizing.                                                        *)
(***************************************************************************)

\* Variant of check_risk whose guard lets a zero balance through.
check_risk_zero_balance(balance, price, risk_threshold) ==
    IF balance < 0 THEN Returned("Invalid Input", PyNone)
    ELSE IF IsNone(price) THEN Raised("TypeError")
    ELSE IF price.v <= 0 THEN Returned("Invalid Input", PyNone)
    ELSE Returned("Position Size",
                  PyFloat(FDivInt(FDivInt(FloatOfInt(balance * risk_threshold), 100), price.v)))

\* strategy.check_risk(balance, price, risk_threshold)
check_risk(balance, price, risk_threshold) ==
    IF balance <= 0 THEN Returned("Invalid Input", PyNone)
    ELSE IF IsNone(price) THEN Raised("TypeError")        \* None <= 0
    ELSE IF price.v <= 0 THEN Returned("Invalid Input", PyNone)
    ELSE LET risk_amount   == FDivInt(FloatOfInt(balance * risk_threshold), 100)
             position_size == FDivInt(risk_amount, price.v)
         IN Returned("Position Size", PyFloat(position_size))

\* WebSocketAnalyzer.calculate_position_size()
WSCalculatePositionSize(balance, price, risk_threshold) ==
    IF IsNone(price) THEN Raised("TypeError")             \* float / None
    ELSE IF price.v = 0 THEN Raised("ZeroDivisionError")
    ELSE LET risk_amount == FDivInt(FloatOfInt(balance * risk_threshold), 100)
         IN Returned("size", PyFloat(FDivInt(risk_amount, price.v)))

\* WebSocketAnalyzer.check_risk()
WSCheckRisk(balance, price, risk_threshold) ==
    LET ps == WSCalculatePositionSize(balance, price, risk_threshold)
    IN IF ps.kind = "raise" THEN ps
       ELSE LET risk_amount == FDivInt(FloatOfInt(balance * risk_threshold), 100)
            IN IF FGreater(FMulInt(ps.val.v, price.v), risk_amount)
               THEN Returned("False", ps.val)
               ELSE Returned("True", ps.val)

\* MarketAnalyzer.calculate_position_size(); risk_percentage is pct/100 as a float
\* literal (0.02 by default), price is float(product_details['price']).
MarketCalculatePositionSize(portfolio_value, price, pct) ==
    IF IsNone(price) THEN Raised("TypeError")             \* float(None) in __init__
    ELSE IF price.v = 0 THEN Raised("ZeroDivisionError")
    ELSE LET risk_percentage == FDivInt(FloatOfInt(pct), 100)
             risk_amount     == FMulInt(risk_percentage, portfolio_value)
         IN Returned("size", PyFloat(FDivInt(risk_amount, price.v)))

\* make_decision: the ADX and the volatility signal are passed and not read.
MarketMakeDecision(rsi_signal, macd_signal, sma_signal, bollinger_signal) ==
    IF /\ rsi_signal = "Oversold" /\ macd_signal = "Bullish"
       /\ sma_signal = "Bullish" /\ bollinger_signal = "Buy" THEN "Buy"
    ELSE IF /\ rsi_signal = "Overbought" /\ macd_signal = "Bearish"
            /\ sma_signal = "Bearish" /\ bollinger_signal = "Sell" THEN "Sell"
    ELSE "Hold"

\* MarketAnalyzer.analyze from the assignment of the signals on.
\* evaluate_signals returns ReturnedSignals values and analyze unpacks them
\* into UnpackedSignals names: a tuple of another length raises ValueError at
\* the assignment, before the position size, the decision and the plots.
ReturnedSignals == 6
UnpackedSignals == 7
MarketAnalyzeUnpack(signals, price, portfolio_value) ==
    IF signals.kind = "raise" THEN signals
    ELSE IF ReturnedSignals # UnpackedSignals THEN Raised("ValueError")
    ELSE LET size == MarketCalculatePositionSize(portfolio_value, PyInt(price), 2)
         IN IF size.kind = "raise" THEN size
            ELSE Returned("ok",
                     [t |-> "result",
                      a |-> MarketMakeDecision(signals.val.rsi_signal,
                                               signals.val.macd_signal,
                                               signals.val.sma_signal,
                                               signals.val.bollinger_signal),
                      b |-> <<>>,
                      position_size |-> size.val,
                      rsi_signal |-> signals.val.rsi_signal,
                      macd_signal |-> signals.val.macd_signal,
                      sma_signal |-> signals.val.sma_signal,
                      bollinger_signal |-> signals.val.bollinger_signal])
\* analyze: the indicators, evaluate_signals, then the assignment of its
\* result to the names of line 195.
MarketAnalyze(historical_data, p, price, portfolio_value) ==
    MarketAnalyzeUnpack(MarketEvaluateSignals(historical_data, p.period, p.short_period,
                                              p.long_period, p.signal_period, price),
                        price, portfolio_value)

(***************************************************************************)
(* Consensus votes.                                                        *)
(***************************************************************************)
AgentsBuyThreshold  == 3
AgentsSellThreshold == 3
ToolsBuyThreshold   == 5
ToolsSellThreshold  == 4
WSBuyThreshold      == 5
WSSellThreshold     == 4

\* What a call hands back: a returned dict / string, or an exception.
\*   final_signal, analyzer_signal, message : the dict's entry, Absent if none
\*   indicators : "results" (the analysis_results), "Insufficient data", Absent
\*   position_size : the dict's entry, PyNone if none
\*   llm_calls : number of self.llm.predict calls made
\*   buy, sell : the vote counts computed (the locals buy_signals, sell_signals)
\*   voted : the local holding the vote's outcome (analyzer_signal / final_signal)
Absent == "(absent)"
Outcome(kind, final, analyzer, message, indicators, size, llm, buy, sell, voted) ==
    [kind |-> kind, final_signal |-> final, analyzer_signal |-> analyzer,
     message |-> message, indicators |-> indicators, position_size |-> size,
     llm_calls |-> llm, buy |-> buy, sell |-> sell, voted |-> voted]

\* sum(1 for key, value in analysis_results.items() if value[0] == lit)
CountItem0(results, lit) ==
    Cardinality({i \in 1..Len(results) : PyItem0EqStr(results[i], lit)})
\* sum(1 for key, value in analysis_results.items() if value == lit)
CountEq(results, lit) ==
    Cardinality({i \in 1..Len(results) : PyEqStr(results[i], lit)})
\* sum(1 for result in strategy_results if str(result) == lit)
CountStr(results, lit) ==
    Cardinality({i \in 1..Len(results) : PyStrOf(results[i]) = lit})

\* Variants of AgentsVote: a strict comparison; the SELL branch tested first.
AgentsVoteStrict(buy_signals, sell_signals) ==
    IF buy_signals > AgentsBuyThreshold THEN "BUY"
    ELSE IF sell_signals >= AgentsSellThreshold THEN "SELL"
    ELSE "HOLD"
AgentsVoteSellFirst(buy_signals, sell_signals) ==
    IF sell_signals >= AgentsSellThreshold THEN "SELL"
    ELSE IF buy_signals >= AgentsBuyThreshold THEN "BUY"
    ELSE "HOLD"

\* agents/analizer_agent.py, the if / elif / else on the vote counts.
AgentsVote(buy_signals, sell_signals) ==
    IF buy_signals >= AgentsBuyThreshold THEN "BUY"
    ELSE IF sell_signals >= AgentsSellThreshold THEN "SELL"
    ELSE "HOLD"

\* Variant of AnalyzeDecide that reports the vote when the risk input is
\* invalid.
AnalyzeDecideKeepsVote(analysis_results, account_balance, close, risk_threshold, llm_ok) ==
    LET buy_signals     == CountItem0(analysis_results, "BUY")
        sell_signals    == CountItem0(analysis_results, "SELL")
        analyzer_signal == AgentsVote(buy_signals, sell_signals)
        risk            == check_risk(account_balance, close, risk_threshold)
    IN IF risk.kind = "raise"
       THEN Outcome("raise", Absent, Absent, Absent, Absent, PyNone, 0,
                    buy_signals, sell_signals, analyzer_signal)
       ELSE IF ~llm_ok
       THEN Outcome("raise", Absent, Absent, Absent, Absent, PyNone, 1,
                    buy_signals, sell_signals, analyzer_signal)
       ELSE Outcome("return", analyzer_signal, Absent, Absent, "results", risk.val, 1,
                    buy_signals, sell_signals, analyzer_signal)

\* agents/analizer_agent.py AnalyzerAgent.analyze from the vote on: the vote,
\* the risk sizing, the LLM call (llm_ok: whether self.llm.predict returns) and
\* the returned dict.  close is historical_df['close'].iloc[-1].
AnalyzeDecide(analysis_results, account_balance, close, risk_threshold, llm_ok) ==
    LET buy_signals     == CountItem0(analysis_results, "BUY")
        sell_signals    == CountItem0(analysis_results, "SELL")
        analyzer_signal == AgentsVote(buy_signals, sell_signals)
        risk            == check_risk(account_balance, close, risk_threshold)
    IN IF risk.kind = "raise"
       THEN Outcome("raise", Absent, Absent, Absent, Absent, PyNone, 0,
                    buy_signals, sell_signals, analyzer_signal)
       ELSE IF IsNone(risk.val)
       THEN Outcome("return", "HOLD", Absent,
                    "Invalid input for position size calculation", Absent, PyNone, 0,
                    buy_signals, sell_signals, analyzer_signal)
       ELSE IF ~llm_ok
       THEN Outcome("raise", Absent, Absent, Absent, Absent, PyNone, 1,
                    buy_signals, sell_signals, analyzer_signal)
       ELSE Outcome("return", Absent, analyzer_signal, Absent, "results", risk.val, 1,
                    buy_signals, sell_signals, analyzer_signal)

\* Default arguments of the indicator functions of strategy.py, and the
\* minimum number of rows AnalyzerAgent.analyze asks for.
RsiPeriod        == 14
MacdShortPeriod  == 12
MacdLongPeriod   == 26
MacdSignalPeriod == 9
SmaPeriod        == 14
BollingerPeriod  == 14
BollingerNumStdDev == 2
VtrPeriod        == 14
StochasticPeriod == 14
StochasticSmoothK == 3
StochasticSmoothD == 3
MinimumRows      == 14

\* The six tools run by AnalyzerAgent.analyze (agents), with their defaults.
AgentsRunTools(historical_df) ==
    << calculate_rsi(historical_df, RsiPeriod),
       calculate_macd(historical_df, MacdShortPeriod, MacdLongPeriod, MacdSignalPeriod),
       calculate_sma(historical_df, SmaPeriod),
       calculate_bollinger_bands(historical_df, BollingerPeriod, BollingerNumStdDev),
       calculate_vtr(historical_df, VtrPeriod),
       calculate_stochastic(historical_df, StochasticPeriod, StochasticSmoothK,
                            StochasticSmoothD) >>

\* agents/analizer_agent.py AnalyzerAgent.analyze(historical_data,
\* account_balance, risk_threshold): the whole method.  llm is the set of
\* behaviours of self.llm.predict (TRUE: it returns, FALSE: it raises); the
\* result is the set of outcomes of the call.
AgentsAnalyze(historical_data, account_balance, risk_threshold, llm) ==
    IF Len(historical_data) < MinimumRows
    THEN {Outcome("return", "HOLD", Absent, Absent, "Insufficient data", PyNone, 0, 0, 0,
                  Absent)}
    ELSE LET analysis_results == AgentsRunTools(historical_data)
             close == PyInt(historical_data[Len(historical_data)].close)
         IN {AnalyzeDecide(analysis_results, account_balance, close, risk_threshold, llm_ok) :
                llm_ok \in llm}

\* tools/analizer.py AnalyzerAgent.analyze, the vote and the returned dict.
ToolsConsensus(analysis_results) ==
    LET buy_signals  == CountEq(analysis_results, "BUY")
        sell_signals == CountEq(analysis_results, "SELL")
        final_signal == IF buy_signals >= ToolsBuyThreshold THEN "BUY"
                        ELSE IF sell_signals >= ToolsSellThreshold THEN "SELL"
                        ELSE "HOLD"
    IN Outcome("return", final_signal, Absent, Absent, "results", PyNone, 0,
               buy_signals, sell_signals, final_signal)

\* tools/analizer.py AnalyzerAgent.analyze(websocket_data): the tools are run
\* as tool._run(historical_data), without the config argument that _run
\* requires (and risk_tool would call check_risk without a price): the call
\* raises TypeError before the vote is reached.
ToolsAnalyze(websocket_data) ==
    Outcome("raise", Absent, Absent, Absent, Absent, PyNone, 0, 0, 0, Absent)

\* WebSocketAnalyzer.calculate_signal(strategy_results)
WSCalculateSignal(strategy_results) ==
    LET buy_count  == CountStr(strategy_results, "BUY")
        sell_count == CountStr(strategy_results, "SELL")
        signal     == IF buy_count >= WSBuyThreshold THEN "BUY"
                      ELSE IF sell_count >= WSSellThreshold THEN "SELL"
                      ELSE "NEUTRAL"
    IN Outcome("return", signal, Absent, Absent, Absent, PyNone, 0,
               buy_count, sell_count, signal)

(***************************************************************************)
(* Specification SpecRisk: one call of a position-sizing function on       *)
(* arguments drawn from small sets.                                        *)
(***************************************************************************)
RiskSites == {"strategy.check_risk", "ws.check_risk", "ws.calculate_position_size",
              "market.calculate_position_size"}
Balances  == {-50, 0, 3, 1000, 10000}
Prices    == {PyNone} \cup {PyInt(n) : n \in {-4, 0, 7, 11, 16, 100}}
RiskPcts  == {1, 2, 3}

VoteIdle == vsite = "idle" /\ vin = Idle /\ vout = Idle
RiskIdle == rsite = "idle" /\ rargs = Idle /\ rout = Idle
IndIdle  == ifn = "idle" /\ iargs = Idle /\ iout = Idle
StreamIdle ==
    /\ pc = "idle" /\ windows = <<>> /\ printed = Idle /\ raised = "-"
    /\ level = 0 /\ ticks = <<>> /\ arrived = <<>>
    /\ current = "-" /\ snapshot = <<>>

InitRisk ==
    /\ rsite \in RiskSites
    /\ rargs \in [balance : Balances, price : Prices, risk : RiskPcts]
    /\ rout = Pending
    /\ VoteIdle /\ IndIdle /\ StreamIdle

CallCheckRisk ==
    /\ rsite = "strategy.check_risk" /\ rout = Pending
    /\ rout' = check_risk(rargs.balance, rargs.price, rargs.risk)
    /\ UNCHANGED <<rsite, rargs, voteVars, indVars, streamVars>>

CallWSCheckRisk ==
    /\ rsite = "ws.check_risk" /\ rout = Pending
    /\ rout' = WSCheckRisk(rargs.balance, rargs.price, rargs.risk)
    /\ UNCHANGED <<rsite, rargs, voteVars, indVars, streamVars>>

CallWSCalculatePositionSize ==
    /\ rsite = "ws.calculate_position_size" /\ rout = Pending
    /\ rout' = WSCalculatePositionSize(rargs.balance, rargs.price, rargs.risk)
    /\ UNCHANGED <<rsite, rargs, voteVars, indVars, streamVars>>

CallMarketCalculatePositionSize ==
    /\ rsite = "market.calculate_position_size" /\ rout = Pending
    /\ rout' = MarketCalculatePositionSize(rargs.balance, rargs.price, rargs.risk)
    /\ UNCHANGED <<rsite, rargs, voteVars, indVars, streamVars>>

NextRisk ==
    \/ CallCheckRisk
    \/ CallWSCheckRisk
    \/ CallWSCalculatePositionSize
    \/ CallMarketCalculatePositionSize

SpecRisk == InitRisk /\ [][NextRisk]_vars

(***************************************************************************)
(* Specification SpecInd: one call of an indicator function on a window    *)
(* of at most MaxLen rows.                                                 *)
(***************************************************************************)
MaxLen == 5

\* Rows of historical_data: closes are powers of two (see NpLog).
Rows == { [close |-> 2, high |-> 2, low |-> 2],
          [close |-> 4, high |-> 8, low |-> 2],
          [close |-> 1, high |-> 2, low |-> 1] }
\* An observation with high < low < close, and the length up to which windows
\* containing it are enumerated.
InvertedRow == [close |-> 4, high |-> 1, low |-> 2]
MaxInvertedLen == 3
Windows == UNION {[1..n -> Rows] : n \in 0..MaxLen}
           \cup UNION {[1..n -> Rows \cup {InvertedRow}] : n \in 0..MaxInvertedLen}

\* period and MACD spans of a call (the defaults are 14 and 12 / 26 / 9).
IndParams ==
    { [period |-> 2, short_period |-> 2, long_period |-> 3, signal_period |-> 2,
       smooth_d |-> 2, num_std_dev |-> 2],
      [period |-> 3, short_period |-> 2, long_period |-> 4, signal_period |-> 3,
       smooth_d |-> 3, num_std_dev |-> 2] }

StrategyFunctions ==
    {"strategy.calculate_rsi", "strategy.calculate_macd", "strategy.calculate_sma",
     "strategy.calculate_bollinger_bands", "strategy.calculate_adx",
     "strategy.calculate_vtr", "strategy.calculate_stochastic"}
WSFunctions ==
    {"ws.calculate_rsi", "ws.calculate_macd", "ws.calculate_sma",
     "ws.calculate_bollinger_bands", "ws.calculate_adx", "ws.calculate_vtr",
     "ws.calculate_stochastic_oscillator"}

MarketFunctions == {"market.evaluate_signals", "market.analyze"}
\* product_details['price'] and the portfolio value of a MarketAnalyzer
ProductPrices == {1, 4}
PortfolioValue == 10000

InitInd ==
    /\ ifn \in StrategyFunctions \cup WSFunctions \cup MarketFunctions
    /\ iargs \in {[historical_data |-> w, p |-> q, again |-> FALSE, price |-> x] :
                     w \in Windows, q \in IndParams, x \in ProductPrices}
    /\ ifn \notin MarketFunctions => iargs.price = 1
    /\ iout = Pending
    /\ VoteIdle /\ RiskIdle /\ StreamIdle

\* A call of an indicator that trims the frame it was given to its lookback.
IndCallInPlace(fn, result) ==
    /\ ifn = fn /\ (iout = Pending \/ ~iargs.again)
    /\ iout' = result
    /\ iargs' = [iargs EXCEPT !.again = (iout # Pending),
                              !.historical_data =
                                  SubSeq(@, Len(@) - Min(Len(@), iargs.p.period) + 1, Len(@))]
    /\ UNCHANGED <<ifn, voteVars, riskVars, streamVars>>

\* One call of an indicator on the frame; the same call is then made a second
\* time on the same frame (again). The functions only read the frame's
\* columns: no column is assigned and no row is dropped.
IndCall(fn, result) ==
    /\ ifn = fn /\ (iout = Pending \/ ~iargs.again)
    /\ iout' = result
    /\ iargs' = [iargs EXCEPT !.again = (iout # Pending)]
    /\ UNCHANGED <<ifn, voteVars, riskVars, streamVars>>

CallCalculateRsi ==
    IndCall("strategy.calculate_rsi",
            Returned("ok", calculate_rsi(iargs.historical_data, iargs.p.period)))
CallCalculateMacd ==
    IndCall("strategy.calculate_macd",
            Returned("ok", calculate_macd(iargs.historical_data, iargs.p.short_period,
                                          iargs.p.long_period, iargs.p.signal_period)))
CallCalculateSma ==
    IndCall("strategy.calculate_sma",
            Returned("ok", calculate_sma(iargs.historical_data, iargs.p.period)))
CallCalculateBollingerBands ==
    IndCall("strategy.calculate_bollinger_bands",
            Returned("ok", calculate_bollinger_bands(iargs.historical_data, iargs.p.period,
                                                     iargs.p.num_std_dev)))
CallCalculateAdx ==
    IndCall("strategy.calculate_adx",
            Returned("ok", calculate_adx(iargs.historical_data, iargs.p.period)))
CallCalculateVtr ==
    IndCall("strategy.calculate_vtr",
            Returned("ok", calculate_vtr(iargs.historical_data, iargs.p.period)))
CallCalculateStochastic ==
    IndCall("strategy.calculate_stochastic",
            Returned("ok", calculate_stochastic(iargs.historical_data, iargs.p.period,
                                                3, iargs.p.smooth_d)))
CallWSCalculateRsi ==
    IndCall("ws.calculate_rsi", WSCalculateRsi(iargs.historical_data, iargs.p.period))
CallWSCalculateMacd ==
    IndCall("ws.calculate_macd",
            WSCalculateMacd(iargs.historical_data, iargs.p.short_period,
                            iargs.p.long_period, iargs.p.signal_period))
CallWSCalculateSma ==
    IndCall("ws.calculate_sma",
            Returned("ok", WSCalculateSma(iargs.historical_data, iargs.p.period)))
CallWSCalculateBollingerBands ==
    IndCall("ws.calculate_bollinger_bands",
            WSCalculateBollingerBands(iargs.historical_data, iargs.p.period,
                                      iargs.p.num_std_dev))
CallWSCalculateAdx ==
    IndCall("ws.calculate_adx", WSCalculateAdx(iargs.historical_data, iargs.p.period))
CallWSCalculateVtr ==
    IndCall("ws.calculate_vtr", WSCalculateVtr(iargs.historical_data, iargs.p.period))
CallWSCalculateStochasticOscillator ==
    IndCall("ws.calculate_stochastic_oscillator",
            WSCalculateStochasticOscillator(iargs.historical_data, iargs.p.period))

CallMarketEvaluateSignals ==
    IndCall("market.evaluate_signals",
            MarketEvaluateSignals(iargs.historical_data, iargs.p.period, iargs.p.short_period,
                                  iargs.p.long_period, iargs.p.signal_period, iargs.price))
CallMarketAnalyze ==
    IndCall("market.analyze",
            MarketAnalyze(iargs.historical_data, iargs.p, iargs.price, PortfolioValue))

NextInd ==
    \/ CallCalculateRsi
    \/ CallCalculateMacd
    \/ CallCalculateSma
    \/ CallCalculateBollingerBands
    \/ CallCalculateAdx
    \/ CallCalculateVtr
    \/ CallCalculateStochastic
    \/ CallWSCalculateRsi
    \/ CallWSCalculateMacd
    \/ CallWSCalculateSma
    \/ CallWSCalculateBollingerBands
    \/ CallWSCalculateAdx
    \/ CallWSCalculateVtr
    \/ CallWSCalculateStochasticOscillator
    \/ CallMarketEvaluateSignals
    \/ CallMarketAnalyze

SpecInd == InitInd /\ [][NextInd]_vars

(***************************************************************************)
(* Specification SpecVote: one call of a consensus site on indicator       *)
(* results drawn from what the indicators of that site can return.         *)
(***************************************************************************)
Signals3 == {"BUY", "SELL", "NEUTRAL"}
Signals2 == {"BUY", "SELL"}
Tup(S)   == {PyTuple(sig, <<NoneVal>>) : sig \in S}
Str(S)   == {PyStr(sig) : sig \in S}

\* RSI, MACD, SMA, Bollinger Bands, VTR, Stochastic on a window of >= 14 rows:
\* (signal, value) tuples; SMA and VTR have no NEUTRAL branch there.
AgentsResults ==
    Tup(Signals3) \X Tup(Signals3) \X Tup(Signals2) \X Tup(Signals3)
        \X Tup(Signals2) \X Tup(Signals3)

\* run_strategies(): RSI str, MACD str, SMA tuple, Bollinger str (or "Error"),
\* ADX str (BUY / SELL only), VTR Series, Stochastic Series.
\* WebSocketAnalyzer.analyze after update_data and run_strategies: the vote,
\* then check_risk decides between the vote and "No Action".
WSAnalyze(strategy_results, balance, price, risk_threshold) ==
    LET signal == WSCalculateSignal(strategy_results)
        risk   == WSCheckRisk(balance, price, risk_threshold)
    IN IF risk.kind = "raise"
       THEN Outcome("raise", Absent, Absent, Absent, Absent, PyNone, 0,
                    signal.buy, signal.sell, signal.voted)
       ELSE IF risk.status = "True" THEN signal
       ELSE [signal EXCEPT !.final_signal = "No Action"]

WSResults ==
    Str(Signals3) \X Str(Signals3) \X Tup(Signals3) \X Str(Signals3 \cup {"Error"})
        \X Str(Signals2) \X {PySeries(<<>>)} \X {PySeries(<<>>)}

InitVote ==
    /\ vsite \in {"agents", "ws", "ws.analyze", "tools"}
    /\ \/ /\ vsite = "agents"
          /\ vin \in [results : AgentsResults, account_balance : {0, 1000},
                      close : {PyInt(0), PyInt(16)}, llm_ok : BOOLEAN]
       \/ /\ vsite = "ws"
          /\ vin \in [results : WSResults, account_balance : {0},
                      close : {PyInt(0)}, llm_ok : {TRUE}]
       \/ /\ vsite = "ws.analyze"
          /\ vin \in [results : WSResults, account_balance : {10000},
                      close : {PyNone, PyInt(0), PyInt(7), PyInt(16)}, llm_ok : {TRUE}]
       \/ /\ vsite = "tools"
          /\ vin \in [results : {<<>>}, account_balance : {0},
                      close : {PyInt(0), PyInt(16)}, llm_ok : {TRUE}]
    /\ vout = Pending
    /\ RiskIdle /\ IndIdle /\ StreamIdle

AgentsAnalyzeDecide ==
    /\ vsite = "agents" /\ vout = Pending
    /\ vout' = AnalyzeDecide(vin.results, vin.account_balance, vin.close, 2, vin.llm_ok)
    /\ UNCHANGED <<vsite, vin, riskVars, indVars, streamVars>>

WSCallCalculateSignal ==
    /\ vsite = "ws" /\ vout = Pending
    /\ vout' = WSCalculateSignal(vin.results)
    /\ UNCHANGED <<vsite, vin, riskVars, indVars, streamVars>>

\* results is what run_strategies collected; close is self.price.
WSCallAnalyze ==
    /\ vsite = "ws.analyze" /\ vout = Pending
    /\ vout' = WSAnalyze(vin.results, vin.account_balance, vin.close, 2)
    /\ UNCHANGED <<vsite, vin, riskVars, indVars, streamVars>>

\* websocket_data is one ticker; close is its price.
ToolsCallAnalyze ==
    /\ vsite = "tools" /\ vout = Pending
    /\ vout' = ToolsAnalyze(vin.close)
    /\ UNCHANGED <<vsite, vin, riskVars, indVars, streamVars>>

NextVote ==
    \/ AgentsAnalyzeDecide
    \/ WSCallCalculateSignal
    \/ WSCallAnalyze
    \/ ToolsCallAnalyze

SpecVote == InitVote /\ [][NextVote]_vars

(***************************************************************************)
(* Specification Spec: DataFetcherAgent.stream_market_data over two        *)
(* subscribed products.  A handler is one step: a received message is      *)
(* processed to the end (append, analyze) before the next one is read.     *)
(* The feed is a flat market: on a connection every ticker of a product    *)
(* quotes the same price, and the n-th ticker of a product is stamped n.   *)
(***************************************************************************)
Capacity       == 100
AccountBalance == 1000
RiskThreshold  == 2

\* Bounds: tickers of the first product received on a connection beyond the
\* capacity, and tickers of the second product.
Overflow   == 3
OtherTicks == 1

ProductIds == {"BTC-USD", "ETH-USD"}
\* Price, 24 h high, 24 h low and 24 h volume quoted by the first product
\* (0: the tickers carry none of the fields, float(ticker.get("price", 0)))
\* and by the second product.
PriceLevels == {16, 0}
MaxTicks(product_id) == IF product_id = "BTC-USD" THEN Capacity + Overflow ELSE OtherTicks
Quote(product_id)    == IF product_id = "BTC-USD" THEN level ELSE 32

\* Variant of DequeAppend that drops the new item when the deque is full.
DequeAppendKeepsOldest(d, x) ==
    IF Len(d) = Capacity THEN d ELSE Append(d, x)

\* deque(maxlen=100).append(x)
DequeAppend(d, x) ==
    IF Len(d) = Capacity THEN Append(Tail(d), x) ELSE Append(d, x)

\* Variant of HistoricalDataAppend that appends to the deque of every product.
HistoricalDataAppendAll(historical_data, product_id, observation) ==
    [p \in DOMAIN historical_data |-> DequeAppend(historical_data[p], observation)]

\* self.historical_data[product_id].append(observation)
HistoricalDataAppend(historical_data, product_id, observation) ==
    [historical_data EXCEPT ![product_id] = DequeAppend(@, observation)]

NoSignal == [kind |-> "none"]

Init ==
    /\ pc = "connecting"
    /\ windows = <<>>
    /\ printed = NoSignal
    /\ raised = "-"
    /\ level = 0
    /\ ticks = <<>>
    /\ arrived = <<>>
    /\ current = "-"
    /\ snapshot = <<>>
    /\ VoteIdle /\ RiskIdle /\ IndIdle

Stop(e) ==
    /\ pc' = "stopped"
    /\ raised' = e

\* websockets.connect succeeds: subscribe, then a new deque for each product.
Connect ==
    /\ pc = "connecting"
    /\ pc' = "receiving"
    /\ windows' = [product_id \in ProductIds |-> <<>>]
    /\ ticks' = [product_id \in ProductIds |-> 0]
    /\ arrived' = [product_id \in ProductIds |-> <<>>]
    /\ level' \in PriceLevels
    /\ UNCHANGED <<printed, raised, current, snapshot, voteVars, riskVars, indVars>>

\* websockets.connect raises (the server cannot be reached): only
\* ConnectionClosed is caught.
ConnectFails ==
    /\ pc = "connecting"
    /\ Stop("OSError")
    /\ UNCHANGED <<windows, printed, level, ticks, arrived,
                   current, snapshot, voteVars, riskVars, indVars>>

\* A ticker message with one ticker of a subscribed product: append the
\* observation, analyze the window, print the printed.
ReceiveTicker(product_id) ==
    /\ pc = "receiving"
    /\ ticks[product_id] < MaxTicks(product_id)
    /\ LET observation == [timestamp |-> ticks[product_id] + 1,
                           close  |-> Quote(product_id),
                           high   |-> Quote(product_id),
                           low    |-> Quote(product_id),
                           volume |-> Quote(product_id)]
           window == HistoricalDataAppend(windows, product_id, observation)[product_id]
       IN /\ windows' = HistoricalDataAppend(windows, product_id, observation)
          /\ ticks' = [ticks EXCEPT ![product_id] = @ + 1]
          /\ arrived' = [arrived EXCEPT ![product_id] = Append(@, observation)]
          /\ \E result \in AgentsAnalyze(window, AccountBalance, RiskThreshold, BOOLEAN) :
                IF result.kind = "raise"
                THEN Stop("LLMError") /\ UNCHANGED printed
                ELSE printed' = result /\ UNCHANGED <<pc, raised>>
    /\ UNCHANGED <<level, current, snapshot, voteVars, riskVars, indVars>>

\* A ticker of a subscribed product whose price is not a number:
\* float(...) raises ValueError before the append.
ReceiveTickerBadPrice(product_id) ==
    /\ pc = "receiving"
    /\ ticks[product_id] < MaxTicks(product_id)
    /\ ticks' = [ticks EXCEPT ![product_id] = @ + 1]
    /\ Stop("ValueError")
    /\ UNCHANGED <<windows, printed, level, arrived, current, snapshot, voteVars, riskVars, indVars>>

\* A ticker of a product that is not in self.windows, a message of
\* another channel, a ticker message without tickers: nothing happens.
ReceiveUnsubscribedTicker ==
    /\ pc = "receiving"
    /\ UNCHANGED vars
ReceiveOtherChannel ==
    /\ pc = "receiving"
    /\ UNCHANGED vars
ReceiveNoTickers ==
    /\ pc = "receiving"
    /\ UNCHANGED vars

\* A ticker message whose events list is empty: [][0] raises IndexError.
ReceiveNoEvents ==
    /\ pc = "receiving"
    /\ Stop("IndexError")
    /\ UNCHANGED <<windows, printed, level, ticks, arrived,
                   current, snapshot, voteVars, riskVars, indVars>>

\* A message that is not JSON: json.loads raises.
ReceiveNotJson ==
    /\ pc = "receiving"
    /\ Stop("JSONDecodeError")
    /\ UNCHANGED <<windows, printed, level, ticks, arrived,
                   current, snapshot, voteVars, riskVars, indVars>>

\* The connection closes: the message loop ends (ConnectionClosed is caught,
\* sleep 5 s) and the while True loop connects again.
ConnectionClosed ==
    /\ pc = "receiving"
    /\ pc' = "connecting"
    /\ UNCHANGED <<windows, printed, raised, level, ticks, arrived,
                   current, snapshot, voteVars, riskVars, indVars>>

Next ==
    \/ Connect
    \/ ConnectFails
    \/ \E product_id \in ProductIds : ReceiveTicker(product_id)
    \/ \E product_id \in ProductIds : ReceiveTickerBadPrice(product_id)
    \/ ReceiveUnsubscribedTicker
    \/ ReceiveOtherChannel
    \/ ReceiveNoTickers
    \/ ReceiveNoEvents
    \/ ReceiveNotJson
    \/ ConnectionClosed

Spec == Init /\ [][Next]_vars

(***************************************************************************)
(* Specification SpecSteps: the same coroutine, statement by statement.    *)
(* The coroutine gives up control only where it awaits (connect, the next  *)
(* message of async for); the append, list(...) and the call of analyze,   *)
(* which is an ordinary synchronous call, follow one another without an    *)
(* await.                                                                  *)
(***************************************************************************)
\* Variant of StepAppend in which the next message is read while analyze is
\* still running (analyze awaited instead of called).
StepAppendDuringEvaluation(product_id) ==
    /\ pc \in {"receiving", "evaluating"}
    /\ ticks[product_id] < MaxTicks(product_id)
    /\ LET observation == [timestamp |-> ticks[product_id] + 1,
                           close  |-> Quote(product_id),
                           high   |-> Quote(product_id),
                           low    |-> Quote(product_id),
                           volume |-> Quote(product_id)]
       IN /\ windows' = HistoricalDataAppend(windows, product_id, observation)
          /\ arrived' = [arrived EXCEPT ![product_id] = Append(@, observation)]
    /\ ticks' = [ticks EXCEPT ![product_id] = @ + 1]
    /\ current' = product_id
    /\ pc' = "appended"
    /\ UNCHANGED <<printed, raised, level, snapshot, voteVars, riskVars, indVars>>

\* async for delivers a ticker of a subscribed product; the observation is
\* appended to the product's deque.
StepAppend(product_id) ==
    /\ pc = "receiving"
    /\ ticks[product_id] < MaxTicks(product_id)
    /\ LET observation == [timestamp |-> ticks[product_id] + 1,
                           close  |-> Quote(product_id),
                           high   |-> Quote(product_id),
                           low    |-> Quote(product_id),
                           volume |-> Quote(product_id)]
       IN /\ windows' = HistoricalDataAppend(windows, product_id, observation)
          /\ arrived' = [arrived EXCEPT ![product_id] = Append(@, observation)]
    /\ ticks' = [ticks EXCEPT ![product_id] = @ + 1]
    /\ current' = product_id
    /\ pc' = "appended"
    /\ UNCHANGED <<printed, raised, level, snapshot, voteVars, riskVars, indVars>>

\* list(self.historical_data[product_id]) is built and analyze is called.
StepCallAnalyze ==
    /\ pc = "appended"
    /\ snapshot' = windows[current]
    /\ pc' = "evaluating"
    /\ UNCHANGED <<windows, printed, raised, level, ticks, arrived, current,
                   voteVars, riskVars, indVars>>

\* analyze returns (the signal is printed, the loop awaits the next message)
\* or raises.
StepAnalyzeReturns ==
    /\ pc = "evaluating"
    /\ \E result \in AgentsAnalyze(snapshot, AccountBalance, RiskThreshold, BOOLEAN) :
          IF result.kind = "raise"
          THEN Stop("LLMError") /\ UNCHANGED printed
          ELSE printed' = result /\ pc' = "receiving" /\ UNCHANGED raised
    /\ current' = "-"
    /\ snapshot' = <<>>
    /\ UNCHANGED <<windows, level, ticks, arrived, voteVars, riskVars, indVars>>

NextSteps ==
    \/ Connect
    \/ ConnectFails
    \/ \E product_id \in ProductIds : StepAppend(product_id)
    \/ StepCallAnalyze
    \/ StepAnalyzeReturns
    \/ \E product_id \in ProductIds : ReceiveTickerBadPrice(product_id)
    \/ ReceiveUnsubscribedTicker
    \/ ReceiveOtherChannel
    \/ ReceiveNoTickers
    \/ ReceiveNoEvents
    \/ ReceiveNotJson
    \/ ConnectionClosed

SpecSteps == Init /\ [][NextSteps]_vars

(***************************************************************************)
(* Properties.                                                             *)
(***************************************************************************)
\* The action a returned decision carries.
Action(o) == IF o.analyzer_signal # Absent THEN o.analyzer_signal ELSE o.final_signal

\* Number of indicator results of the call that are equal to lit: at the agents
\* site the signal of a (signal, value) tuple, in calculate_signal a result that
\* is that string.
ResultsEqual(lit) ==
    IF vsite = "agents" THEN CountItem0(vin.results, lit)
    ELSE IF vsite = "tools" THEN CountEq(vin.results, lit)
    ELSE CountStr(vin.results, lit)
BuyThresholdOf(site) ==
    IF site = "agents" THEN AgentsBuyThreshold
    ELSE IF site = "tools" THEN ToolsBuyThreshold ELSE WSBuyThreshold
SellThresholdOf(site) ==
    IF site = "agents" THEN AgentsSellThreshold
    ELSE IF site = "tools" THEN ToolsSellThreshold ELSE WSSellThreshold
HoldOf(site) == IF site = "ws" \/ site = "ws.analyze" THEN "NEUTRAL" ELSE "HOLD"
BuyMet  == ResultsEqual("BUY") >= BuyThresholdOf(vsite)
SellMet == ResultsEqual("SELL") >= SellThresholdOf(vsite)
RiskInputValid ==
    /\ vsite = "agents" => (vin.account_balance > 0 /\ vin.close.v > 0)
    /\ vsite = "ws.analyze" =>
           LET risk == WSCheckRisk(vin.account_balance, vin.close, 2)
           IN risk.kind = "return" /\ risk.status = "True"

\* C1: at a consensus call site, given valid risk input, the returned action is
\* BUY if and only if the number of indicator results equal to BUY is at least
\* the site's buy threshold (so a count equal to the threshold gives BUY and a
\* count one below it does not).
C1_BuyIffThreshold ==
    (vout.kind = "return" /\ RiskInputValid) => (Action(vout) = "BUY" <=> BuyMet)

C1_Witness ==
    /\ vsite = "agents" /\ vout.kind = "return" /\ RiskInputValid
    /\ ResultsEqual("BUY") = AgentsBuyThreshold
    /\ Action(vout) = "BUY"

\* C2 as stated: at a consensus call site the returned action is SELL if and
\* only if the SELL count reaches the sell threshold and the buy condition is
\* not met, and HOLD (NEUTRAL) in every other case.
C2_SellIffThreshold_Original ==
    vout.kind = "return" =>
        /\ Action(vout) = "SELL" <=> (SellMet /\ ~BuyMet)
        /\ Action(vout) = HoldOf(vsite) <=> (~SellMet /\ ~BuyMet)
        /\ (BuyMet /\ SellMet) => Action(vout) = "BUY"

\* C2 amended: the same, given valid risk input (with invalid risk input
\* AnalyzerAgent.analyze returns HOLD whatever the counts).
C2_SellIffThreshold ==
    (vout.kind = "return" /\ RiskInputValid) =>
        /\ Action(vout) = "SELL" <=> (SellMet /\ ~BuyMet)
        /\ Action(vout) = HoldOf(vsite) <=> (~SellMet /\ ~BuyMet)
        /\ (BuyMet /\ SellMet) => Action(vout) = "BUY"

C2_Witness ==
    /\ vsite = "agents" /\ vout.kind = "return" /\ RiskInputValid
    /\ BuyMet /\ SellMet
    /\ Action(vout) = "BUY"

\* C7: check_risk returns the invalid-input status and no size whenever
\* balance <= 0 or price <= 0, and otherwise the size
\* (balance * risk_threshold / 100) / price; check_risk(10000, 100, 2) is 2.0.
C7_CheckRisk ==
    (rsite = "strategy.check_risk" /\ rout.kind # "pending" /\ ~IsNone(rargs.price)) =>
        /\ rout.kind = "return"
        /\ IF rargs.balance <= 0 \/ rargs.price.v <= 0
           THEN rout.status = "Invalid Input" /\ IsNone(rout.val)
           ELSE /\ rout.status = "Position Size"
                /\ rout.val.t = "float"
                /\ rout.val.v = FDivInt(FDivInt(FloatOfInt(rargs.balance * rargs.risk), 100),
                                        rargs.price.v)
                /\ rout.val.v.s = 1
        /\ (rargs.balance = 10000 /\ rargs.price.v = 100 /\ rargs.risk = 2)
               => rout.val.v = FloatOfInt(2)

C7_Witness ==
    /\ rsite = "strategy.check_risk" /\ rout.kind = "return"
    /\ rargs.balance = 10000 /\ rargs.price = PyInt(100) /\ rargs.risk = 2
    /\ rout.status = "Position Size" /\ rout.val.v = FloatOfInt(2)

\* C8: in AnalyzerAgent.analyze (agents), when the risk sizing reports invalid
\* input (account balance <= 0 or latest close <= 0) the call returns the
\* final signal HOLD whatever the vote counts are, returns no position size and
\* makes no LLM call.
C8_InvalidRiskForcesHold ==
    (vsite = "agents" /\ vout.kind # "pending"
       /\ (vin.account_balance <= 0 \/ vin.close.v <= 0)) =>
        /\ vout.kind = "return"
        /\ vout.final_signal = "HOLD" /\ vout.analyzer_signal = Absent
        /\ IsNone(vout.position_size)
        /\ vout.llm_calls = 0

C8_Witness ==
    /\ vsite = "agents" /\ vout.kind = "return"
    /\ vin.close.v <= 0 /\ vin.account_balance > 0 /\ ~vin.llm_ok
    /\ BuyMet /\ vout.voted = "BUY"
    /\ vout.final_signal = "HOLD" /\ vout.llm_calls = 0

\* C3: during one connection the window of a product never holds more than
\* Capacity observations, and it holds exactly the most recent
\* min(n, Capacity) of the n observations appended, in arrival order (the
\* oldest are evicted first).
C3_WindowKeepsMostRecent ==
    \A product_id \in DOMAIN windows :
        LET window == windows[product_id]
            n      == Len(arrived[product_id])
        IN /\ Len(window) <= Capacity
           /\ Len(window) = Min(n, Capacity)
           /\ \A i \in 1..Len(window) :
                  window[i] = arrived[product_id][n - Len(window) + i]

C3_Witness ==
    /\ pc = "receiving"
    /\ Len(arrived["BTC-USD"]) = Capacity + 2
    /\ Len(windows["BTC-USD"]) = Capacity
    /\ windows["BTC-USD"][1].timestamp = 3
    /\ windows["BTC-USD"][Capacity].timestamp = Capacity + 2

\* C4: every well-formed ticker received for a subscribed product is appended
\* to the product's window and the window is then evaluated: below
\* MinimumRows observations the result is HOLD with "Insufficient data" and
\* nothing is computed; from MinimumRows on the indicators, the vote and the
\* risk sizing run and a decision is produced; the processor is then waiting
\* for the next message again (it has no terminal state).
C4_TickerAppendedThenEvaluated ==
    [][\A product_id \in ProductIds :
          (pc = "receiving" /\ Len(arrived'[product_id]) = Len(arrived[product_id]) + 1) =>
              /\ Len(windows'[product_id]) >= 1
              /\ Last(windows'[product_id]) = Last(arrived'[product_id])
              /\ pc' = "receiving"
              /\ printed'.kind = "return"
              /\ IF Len(windows'[product_id]) < MinimumRows
                 THEN /\ printed'.final_signal = "HOLD"
                      /\ printed'.indicators = "Insufficient data"
                      /\ printed'.llm_calls = 0
                 ELSE /\ printed'.indicators # "Insufficient data"
                      /\ printed'.voted \in {"BUY", "SELL", "HOLD"}
                      /\ \/ printed'.analyzer_signal = printed'.voted
                         \/ printed'.final_signal = "HOLD"]_vars

\* The lookback of the indicator function that is called, and whether its
\* result is counted as lit by the vote of its site (value[0] == lit on the
\* tuples of strategy.py, str(result) == lit in WebSocketAnalyzer).
Lookback ==
    IF ifn \in {"strategy.calculate_macd", "ws.calculate_macd"} THEN iargs.p.long_period
    ELSE IF ifn = "strategy.calculate_adx" THEN 52
    ELSE iargs.p.period
CountedAs(lit) ==
    /\ iout.kind = "return"
    /\ IF ifn \in StrategyFunctions THEN PyItem0EqStr(iout.val, lit)
       ELSE PyStrOf(iout.val) = lit
Votes == CountedAs("BUY") \/ CountedAs("SELL")
\* The numeric values of a (signal, value) result.
HasValue       == iout.kind = "return" /\ iout.val.t = "tuple"
ValueIsNone    == \A i \in 1..Len(iout.val.b) : iout.val.b[i].k = "none"
ValueUndefined == \E i \in 1..Len(iout.val.b) : ~Defined(iout.val.b[i])

\* C5: on a window shorter than its lookback every indicator function returns
\* (it does not raise, on an empty window either), returns no value, and
\* returns a signal that is counted neither as BUY nor as SELL.
C5_ShortWindowAbstains ==
    (iout.kind # "pending" /\ Len(iargs.historical_data) < Lookback) =>
        /\ iout.kind = "return"
        /\ ~Votes
        /\ HasValue => ValueIsNone

\* C6: an indicator result whose numeric value is undefined (None or NaN) is
\* counted neither as BUY nor as SELL, whatever the length of the window.
C6_UndefinedValueAbstains ==
    (HasValue /\ ValueUndefined) => ~Votes

\* C9: every position-sizing path answers a non-positive or missing balance or
\* price with an error state: it neither raises nor computes a size.
C9_EverySizingPathRejects ==
    (rout.kind # "pending"
       /\ (rargs.balance <= 0 \/ IsNone(rargs.price) \/ rargs.price.v <= 0)) =>
        rout.kind = "return" /\ IsNone(rout.val)

\* C10: for positive balance, price and risk percentage
\* WebSocketAnalyzer.check_risk returns True (size * price <= risk amount).
C10_WSCheckRiskTrue ==
    (rsite = "ws.check_risk" /\ rout.kind # "pending" /\ ~IsNone(rargs.price)
       /\ rargs.balance > 0 /\ rargs.price.v > 0 /\ rargs.risk > 0) =>
        rout.kind = "return" /\ rout.status = "True"

\* C11: a ticker whose price, high, low or volume is missing (read as 0), zero
\* or negative is dropped: no window ever holds an observation with a
\* non-positive required field.
C11_MalformedTickerDropped ==
    \A product_id \in DOMAIN windows :
        \A i \in 1..Len(windows[product_id]) :
            LET observation == windows[product_id][i]
            IN /\ observation.close > 0
               /\ observation.high > 0
               /\ observation.low > 0
               /\ observation.volume > 0

\* C12: no received message terminates the stream: while messages are being
\* received, every step leaves the processor receiving, or leaves the message
\* loop by a connection close that leads to a reconnect.
C12_NoMessageTerminatesStream ==
    [][pc = "receiving" => pc' \in {"receiving", "connecting"}]_vars

\* C13: once a product has a window it changes only by appends, across
\* reconnects too: in every step the window stays as it is or is the old one
\* with one observation appended, its length never decreases, and a window
\* that holds MinimumRows observations never falls below MinimumRows again.
C13_WindowOnlyAppended ==
    [][\A product_id \in DOMAIN windows :
          /\ product_id \in DOMAIN windows'
          /\ \/ windows'[product_id] = windows[product_id]
             \/ /\ Len(windows'[product_id]) >= 1
                /\ windows'[product_id] =
                       DequeAppend(windows[product_id], Last(windows'[product_id]))
          /\ Len(windows'[product_id]) >= Len(windows[product_id])
          /\ Len(windows[product_id]) >= MinimumRows
                 => Len(windows'[product_id]) >= MinimumRows]_vars

\* C14: while messages are received, a step either changes no window and
\* prints nothing new, or it processes one ticker of one subscribed product:
\* the window, the ticker count and the arrivals of every other product are
\* unchanged and a decision that is printed is a result of analyze on that
\* product's window alone.
C14_TickerTouchesOnlyItsWindow ==
    [][pc = "receiving" /\ pc' # "connecting" =>
          \/ windows' = windows /\ printed' = printed
          \/ \E product_id \in ProductIds :
                /\ ticks'[product_id] = ticks[product_id] + 1
                /\ \A other \in ProductIds \ {product_id} :
                      /\ windows'[other] = windows[other]
                      /\ ticks'[other] = ticks[other]
                      /\ arrived'[other] = arrived[other]
                /\ printed' # printed =>
                      printed' \in AgentsAnalyze(windows'[product_id], AccountBalance,
                                                 RiskThreshold, BOOLEAN)]_vars

C14_Witness ==
    /\ pc = "receiving"
    /\ Len(windows["BTC-USD"]) >= MinimumRows
    /\ Len(windows["ETH-USD"]) = 1
    /\ windows["ETH-USD"][1].close # windows["BTC-USD"][1].close
    /\ printed.kind = "return"
    /\ printed.indicators # "Insufficient data"

\* C15: at most one evaluation is in flight and the window is not mutated
\* while it runs: while analyze is running it works on a copy of the
\* product's window as it is after the append of the latest observation, and
\* no window changes between an append and the return of the analyze call
\* made for it (the next append comes after that return).
C15_OneEvaluationInFlight ==
    /\ [](pc = "evaluating" =>
             /\ current \in ProductIds
             /\ snapshot = windows[current]
             /\ Len(snapshot) >= 1
             /\ Last(snapshot) = Last(arrived[current]))
    /\ [](pc \in {"connecting", "receiving", "stopped"} => snapshot = <<>>)
    /\ [][(pc = "appended" \/ pc = "evaluating") =>
             (windows' = windows /\ arrived' = arrived)]_vars

C15_Witness ==
    /\ pc = "evaluating"
    /\ current = "BTC-USD"
    /\ Len(snapshot) = MinimumRows
    /\ Len(arrived["ETH-USD"]) = 1

\* C16: the LLM is called only after the decision has been emitted: a decision
\* that analyze returns was produced without a call of the LLM, and no
\* exception of the LLM call keeps a decision from being returned.
C16_LlmCalledAfterDecision ==
    /\ printed.kind = "return" => printed.llm_calls = 0
    /\ raised # "LLMError"

\* C17: the consensus call sites apply the same pair of thresholds: for the
\* buy and sell counts of any call, the vote of agents/analizer_agent.py, the
\* vote of tools/analizer.py and WebSocketAnalyzer.calculate_signal give the
\* same action on these counts (NEUTRAL read as HOLD).
C17_SitesApplySameThresholds ==
    vout.kind = "return" =>
        LET buy    == vout.buy
            sell   == vout.sell
            counted == [i \in 1..(buy + sell) |->
                           PyStr(IF i <= buy THEN "BUY" ELSE "SELL")]
            agents == AgentsVote(buy, sell)
            tools  == ToolsConsensus(counted).final_signal
            ws     == WSCalculateSignal(counted).final_signal
        IN /\ agents = tools
           /\ tools = (IF ws = "NEUTRAL" THEN "HOLD" ELSE ws)

\* C18: the ADX result adds neither to the buy count nor to the sell count:
\* the counts of calculate_signal are those of the results of run_strategies
\* without the ADX result (the fifth one).
C18_AdxNeverVotes ==
    (vsite = "ws" /\ vout.kind = "return") =>
        LET results == vin.results
            others  == [i \in 1..(Len(results) - 1) |->
                           IF i < 5 THEN results[i] ELSE results[i + 1]]
        IN /\ vout.buy = CountStr(others, "BUY")
           /\ vout.sell = CountStr(others, "SELL")

\* The SMA signal and the MACD signal of the indicator call, in the words of
\* strategy.py (Bullish read as BUY, Bearish as SELL, Neutral as NEUTRAL).
SignalWord(word) ==
    IF word = "Bullish" THEN "BUY"
    ELSE IF word = "Bearish" THEN "SELL"
    ELSE IF word = "Neutral" THEN "NEUTRAL" ELSE word
SmaSignal ==
    IF ifn = "market.evaluate_signals" THEN SignalWord(iout.val.sma_signal) ELSE iout.val.a
MacdSignal ==
    IF ifn = "market.evaluate_signals" THEN SignalWord(iout.val.macd_signal) ELSE iout.val.a

\* C19: on a window of at least `period` observations every SMA signal
\* implementation returns BUY when the latest close is strictly greater than
\* the mean of the last `period` closes and SELL otherwise.
C19_SmaSignal ==
    (/\ iout.kind # "pending"
     /\ ifn \in {"strategy.calculate_sma", "ws.calculate_sma", "market.evaluate_signals"}
     /\ Len(iargs.historical_data) >= iargs.p.period) =>
        LET close  == Column(iargs.historical_data, "close")
            n      == Len(iargs.historical_data)
            period == iargs.p.period
            mean   == VDiv(VSum([j \in 1..period |-> close[n - period + j]]), Num(period))
        IN /\ iout.kind = "return"
           /\ SmaSignal = (IF VGreater(close[n], mean) THEN "BUY" ELSE "SELL")

\* C20: on a window with enough data every MACD signal implementation returns
\* BUY when the last MACD value is greater than the last signal-line value,
\* SELL when it is smaller, and NEUTRAL when the two are equal.
C20_MacdSignal ==
    (/\ iout.kind # "pending"
     /\ ifn \in {"strategy.calculate_macd", "ws.calculate_macd", "market.evaluate_signals"}
     /\ Len(iargs.historical_data) >= iargs.p.long_period) =>
        LET m == MacdLast(Column(iargs.historical_data, "close"), iargs.p.short_period,
                          iargs.p.long_period, iargs.p.signal_period)
        IN /\ iout.kind = "return"
           /\ MacdSignal = (IF VGreater(m.macd, m.signal_line) THEN "BUY"
                            ELSE IF VLess(m.macd, m.signal_line) THEN "SELL"
                            ELSE "NEUTRAL")

\* C21: on a window of at least `period` observations the stochastic signal
\* is SELL when the last %K is above 80, BUY when it is below 20 and NEUTRAL
\* otherwise, whatever %D is.
C21_StochasticSignal ==
    (/\ iout.kind # "pending"
     /\ ifn = "strategy.calculate_stochastic"
     /\ Len(iargs.historical_data) >= iargs.p.period) =>
        LET k == Last(StochasticK(iargs.historical_data, iargs.p.period))
        IN /\ iout.kind = "return"
           /\ iout.val.a = (IF VGreater(k, Num(80)) THEN "SELL"
                            ELSE IF VLess(k, Num(20)) THEN "BUY" ELSE "NEUTRAL")

\* C22: on a window of at least `period` closes in which no close of the last
\* `period` rows is below its predecessor (the rolling mean of losses is
\* zero; constant closes included) calculate_rsi returns the value 100 and
\* the Overbought / SELL signal.
C22_RsiWithoutLosses ==
    (/\ iout.kind # "pending"
     /\ ifn \in {"strategy.calculate_rsi", "ws.calculate_rsi"}
     /\ Len(iargs.historical_data) >= iargs.p.period
     /\ \A i \in (Len(iargs.historical_data) - iargs.p.period + 1)..Len(iargs.historical_data) :
            i > 1 => iargs.historical_data[i].close >= iargs.historical_data[i - 1].close) =>
        /\ iout.kind = "return"
        /\ IF ifn = "strategy.calculate_rsi"
           THEN iout.val = PyTuple("SELL", <<Num(100)>>)
           ELSE iout.val = PyStr("SELL")

\* C23: a defined value returned by calculate_rsi lies in the closed interval
\* [0, 100].
C23_RsiBounded ==
    (/\ ifn = "strategy.calculate_rsi"
     /\ iout.kind = "return"
     /\ Defined(iout.val.b[1])) =>
        /\ IsNum(iout.val.b[1])
        /\ ~VLess(iout.val.b[1], Num(0))
        /\ ~VGreater(iout.val.b[1], Num(100))

C23_Witness ==
    /\ ifn = "strategy.calculate_rsi"
    /\ iout.kind = "return"
    /\ IsNum(iout.val.b[1])
    /\ VGreater(iout.val.b[1], Num(0))
    /\ VLess(iout.val.b[1], Num(100))
    /\ Len(iargs.historical_data) > iargs.p.period

\* The mean and the sample variance (ddof = 1) of the last `period` closes of
\* the window of the indicator call.
LastCloses ==
    [j \in 1..iargs.p.period |->
        Num(iargs.historical_data[Len(iargs.historical_data) - iargs.p.period + j].close)]
MeanOfLastCloses == VDiv(VSum(LastCloses), Num(iargs.p.period))
VarOfLastCloses ==
    VDiv(VSum([j \in 1..iargs.p.period |->
                  VMul(VSub(LastCloses[j], MeanOfLastCloses),
                       VSub(LastCloses[j], MeanOfLastCloses))]),
         Num(iargs.p.period - 1))

OutOfRange(row) == ~(row.low <= row.close /\ row.close <= row.high)
Degenerate(row) == OutOfRange(row) \/ row.high = row.low

\* The last `period` rows span no range: highest high = lowest low there.
NoRange(historical_data, period) ==
    /\ Len(historical_data) >= period
    /\ Last(RollingMax(Column(historical_data, "high"), period))
         = Last(RollingMin(Column(historical_data, "low"), period))

RECURSIVE EmaAt(_, _, _)
EmaAt(prices, span, t) ==
    IF t = 1 THEN prices[1]
    ELSE LET a == Rat(2, span + 1)
         IN VAdd(VMul(a, prices[t]),
                 VMul(VSub(Num(1), a), EmaAt(prices, span, t - 1)))
MacdAt(closes, short_period, long_period, t) ==
    VSub(EmaAt(closes, short_period, t), EmaAt(closes, long_period, t))
MacdSeries(closes, short_period, long_period) ==
    [t \in 1..Len(closes) |-> MacdAt(closes, short_period, long_period, t)]
\* The sequence with the closes of rows i and j exchanged.
Exchanged(closes, i, j) ==
    [t \in 1..Len(closes) |->
        IF t = i THEN closes[j] ELSE IF t = j THEN closes[i] ELSE closes[t]]
MacdValues(closes, p) ==
    MacdLast(closes, p.short_period, p.long_period, p.signal_period)

\* C27: the MACD value that calculate_macd returns is the difference of the
\* short and the long EMA of the recurrence above at the last row, the signal
\* line it compares it with is the EMA of that difference, and exchanging
\* two observations of the window that differ in their close gives another
\* MACD or another signal line.
C27_MacdFollowsRecurrence ==
    (/\ iout.kind # "pending"
     /\ ifn = "strategy.calculate_macd"
     /\ Len(iargs.historical_data) >= iargs.p.long_period) =>
        LET closes == Column(iargs.historical_data, "close")
            n      == Len(closes)
            p      == iargs.p
            macd   == MacdSeries(closes, p.short_period, p.long_period)
        IN /\ iout.kind = "return"
           /\ iout.val.b = <<macd[n]>>
           /\ MacdValues(closes, p).macd = macd[n]
           /\ MacdValues(closes, p).signal_line = EmaAt(macd, p.signal_period, n)
           /\ iargs.again =>
                  \A i, j \in 1..n :
                      (i < j /\ closes[i] # closes[j]) =>
                          MacdValues(Exchanged(closes, i, j), p) # MacdValues(closes, p)

C27_Witness ==
    /\ iout.kind = "return" /\ iargs.again
    /\ ifn = "strategy.calculate_macd"
    /\ Len(iargs.historical_data) = MaxLen
    /\ iargs.p.long_period = 4
    /\ \E i \in 1..MaxLen - 1 :
           iargs.historical_data[i].close # iargs.historical_data[i + 1].close
    /\ iout.val.a = "SELL"

\* C28: MarketAnalyzer.analyze returns, for any historical data, a result
\* whose decision is Buy, Sell or Hold: Buy exactly when RSI is Oversold, MACD
\* Bullish, SMA Bullish and Bollinger Buy, Sell exactly when RSI is
\* Overbought, MACD Bearish, SMA Bearish and Bollinger Sell, Hold otherwise;
\* its position size is portfolio_value * risk_percentage / price.
C28_AnalyzeReturnsDecision ==
    (ifn = "market.analyze" /\ iout.kind # "pending") =>
        /\ iout.kind = "return"
        /\ iout.val.a \in {"Buy", "Sell", "Hold"}
        /\ iout.val.a = "Buy" <=>
              /\ iout.val.rsi_signal = "Oversold" /\ iout.val.macd_signal = "Bullish"
              /\ iout.val.sma_signal = "Bullish" /\ iout.val.bollinger_signal = "Buy"
        /\ iout.val.a = "Sell" <=>
              /\ iout.val.rsi_signal = "Overbought" /\ iout.val.macd_signal = "Bearish"
              /\ iout.val.sma_signal = "Bearish" /\ iout.val.bollinger_signal = "Sell"
        /\ iout.val.position_size =
              MarketCalculatePositionSize(PortfolioValue, PyInt(iargs.price), 2).val

\* The stream with its scheduling: once the connection is closed and the
\* pause is over, the loop calls websockets.connect again, and the call
\* returns or raises.
SpecLive == Init /\ [][Next]_vars /\ WF_vars(Connect \/ ConnectFails)

\* The connection was closed: the loop is about to connect again.
Disconnected == pc = "connecting" /\ windows # <<>>

\* C29: whenever the connection is closed the stream does not terminate but
\* connects and subscribes again, after every disconnect.
C29_ClosedLeadsToSubscribed ==
    /\ [][Disconnected => pc' # "stopped"]_vars
    /\ Disconnected ~> (pc = "receiving")

\* C30: WebSocketAnalyzer.analyze never returns BUY: at most four of the
\* seven results read as "BUY", the buy count stays below the buy threshold,
\* and what analyze returns is SELL, NEUTRAL or "No Action".
C30_WSAnalyzeNeverBuy ==
    ((vsite = "ws" \/ vsite = "ws.analyze") /\ vout.kind # "pending") =>
        /\ vout.buy < WSBuyThreshold
        /\ vout.kind = "return" => vout.final_signal \in {"SELL", "NEUTRAL", "No Action"}

C30_Witness ==
    /\ vsite = "ws.analyze" /\ vout.kind = "return"
    /\ vout.buy = WSBuyThreshold - 1
    /\ PyItem0EqStr(vin.results[3], "BUY")
    /\ vout.final_signal = "NEUTRAL"

====
